---- MODULE Spec2Model ----
(***************************************************************************)
(* Model of src/src/python/equitrends_python.py: the folded-normal         *)
(* distribution functions, the constrained OLS estimator, the residual     *)
(* variance estimator and the minimum-threshold searches.                  *)
(*                                                                         *)
(* Every public function is a pure function of its arguments, so a         *)
(* behaviour of the model is one call: Init draws the operation and its    *)
(* arguments, one action per function applies it and records what the      *)
(* caller can observe (returned value or raised error, warnings, and the   *)
(* invocations of the external optimizers).                                *)
(*                                                                         *)
(* Numbers.  A Python float is modelled by an exact two-part decimal       *)
(* [hi, lo] of value hi * 1e-6 + lo * 1e-16, with |lo| far below 1e10, so   *)
(* that the scales the code distinguishes (1e-15, 1e-8, 1e10 times sd) are *)
(* all representable with small integers.  Arithmetic on them is exact:    *)
(* the rounding of binary floating point is not modelled.  Probabilities   *)
(* are integers in units of 1e-5, and the standard normal cdf is known at  *)
(* the integers.  sigma_hathat_c works on integer-valued data.  The one     *)
(* floating-point effect kept is the underflow of exp(-delta) to zero.     *)
(***************************************************************************)
EXTENDS Integers, Sequences, FiniteSets, TLC

VARIABLES pc, op, args, ret, runs, result, warned, search, evals

vars == <<pc, op, args, ret, runs, result, warned, search, evals>>

\* an absent optional value is the empty sequence, a present one <<v>>
None == <<>>

NoReturn == [status |-> "none"]

ValueError(msg) == [status |-> "ValueError", msg |-> msg]

Ok(v) == [status |-> "ok", value |-> v]

(***************************************************************************)
(* Two-part decimals                                                       *)
(***************************************************************************)
Num(h, l) == [hi |-> h, lo |-> l]

Zero == Num(0, 0)

NumLt(a, b) == a.hi < b.hi \/ (a.hi = b.hi /\ a.lo < b.lo)

NumLe(a, b) == ~NumLt(b, a)

NumNeg(a) == Num(-a.hi, -a.lo)

NumAdd(a, b) == Num(a.hi + b.hi, a.lo + b.lo)

NumSub(a, b) == Num(a.hi - b.hi, a.lo - b.lo)

NumScale(k, a) == Num(k * a.hi, k * a.lo)

NumAbs(a) == IF NumLt(a, Zero) THEN NumNeg(a) ELSE a

NumMax(a, b) == IF NumLt(a, b) THEN b ELSE a

NumMin(a, b) == IF NumLt(b, a) THEN b ELSE a

Min(i, j) == IF i < j THEN i ELSE j

(***************************************************************************)
(* Parameter validation (each returns TRUE when the check raises)          *)
(***************************************************************************)
\* _validate_probability: raises unless 0 < p < 1 (p in units of 1e-5)
POne == 100000

validate_probability_raises(p) == ~(0 < p /\ p < POne)

\* _validate_positive: raises when x <= 0
validate_positive_raises(x) == NumLe(x, Zero)

\* _validate_non_negative: raises when x < 0
validate_non_negative_raises(x) == NumLt(x, Zero)

(***************************************************************************)
(* Folded normal distribution                                              *)
(***************************************************************************)
\* _FOLDNORM_SD_MIN = 1e-15
FOLDNORM_SD_MIN == Num(0, 10)

\* _FOLDNORM_C_MAX = 1e10 is the ratio of the hi unit to the lo unit, so
\* 1e10 * sd is sd moved from the lo part to the hi part; an sd with a hi
\* part is so large that 1e10 * sd exceeds every number of the model.
\* The shape c = abs(mean) / sd is kept as the exact fraction num / den.
Shape(mean, sd) == [num |-> NumAbs(mean), den |-> sd]

ShapeExceedsCMax(c) ==
    c.den.hi = 0 /\ NumLt(Num(c.den.lo, 0), c.num)

\* scipy.stats.norm.cdf at the integers, in units of 1e-5
PhiTable == <<3, 135, 2275, 15866, 50000, 84134, 97725, 99865, 99997>>

Phi(z) == IF z <= -5 THEN 0 ELSE IF z >= 5 THEN POne ELSE PhiTable[z + 5]

\* floor(n / d) for d > 0, kept within -5..5 where Phi no longer changes
ZFloor(n, d) ==
    IF NumLe(NumScale(5, d), n) THEN 5
    ELSE IF NumLt(n, NumScale(-5, d)) THEN -5
    ELSE CHOOSE k \in -5..4 :
            NumLe(NumScale(k, d), n) /\ NumLt(n, NumScale(k + 1, d))

\* norm.cdf(n / d), evaluated at the grid point below n / d
norm_cdf(n, d) == Phi(ZFloor(n, d))

\* norm.ppf(p) for 0 < p < 1: the least grid point z with norm.cdf(z) >= p
norm_ppf(p) == CHOOSE z \in -5..5 :
                  Phi(z) >= p /\ \A y \in -5..5 : Phi(y) >= p => z <= y

\* scipy's foldnorm.cdf(x, c, loc=0, scale): Phi(x/scale - c) + Phi(x/scale + c) - 1
foldnorm_cdf(x, c, scale) ==
    norm_cdf(NumSub(x, c.num), scale) + norm_cdf(NumAdd(x, c.num), scale) - POne

\* foldnorm.ppf(p, c, loc=0, scale): scipy inverts foldnorm.cdf numerically on
\* x >= 0; the least x with cdf(x) >= p is one of the points where a term of
\* the cdf changes.
foldnorm_ppf(p, c, scale) ==
    LET cand == {x \in {Zero}
                     \cup {NumAdd(c.num, NumScale(k, scale)) : k \in -5..5}
                     \cup {NumSub(NumScale(k, scale), c.num) : k \in -5..5} :
                   NumLe(Zero, x) /\ foldnorm_cdf(x, c, scale) >= p}
    IN  CHOOSE x \in cand : \A y \in cand : NumLe(x, y)

qfoldnorm_SignedMean(p, mean, sd) ==
    IF validate_probability_raises(p)
    THEN ValueError("p must be strictly between 0 and 1")
    ELSE IF validate_positive_raises(sd)
    THEN ValueError("sd must be strictly positive")
    ELSE IF NumLt(sd, FOLDNORM_SD_MIN)
    THEN [status |-> "ok", value |-> NumAbs(mean), branch |-> "degenerate"]
    ELSE LET c == Shape(mean, sd)
         IN  IF ShapeExceedsCMax(c)
             THEN LET r == NumAdd(mean, NumScale(norm_ppf(p), sd))
                  IN  [status |-> "ok", value |-> NumMax(Zero, r),
                       branch |-> "extreme"]
             ELSE [status |-> "ok", value |-> foldnorm_ppf(p, c, sd),
                   branch |-> "standard"]

qfoldnorm_ShapeFirst(p, mean, sd) ==
    IF validate_probability_raises(p)
    THEN ValueError("p must be strictly between 0 and 1")
    ELSE IF validate_positive_raises(sd)
    THEN ValueError("sd must be strictly positive")
    ELSE LET c == Shape(mean, sd)
         IN  IF ShapeExceedsCMax(c)
             THEN LET r == NumAdd(NumAbs(mean), NumScale(norm_ppf(p), sd))
                  IN  [status |-> "ok", value |-> NumMax(Zero, r),
                       branch |-> "extreme"]
             ELSE IF NumLt(sd, FOLDNORM_SD_MIN)
             THEN [status |-> "ok", value |-> NumAbs(mean),
                   branch |-> "degenerate"]
             ELSE [status |-> "ok", value |-> foldnorm_ppf(p, c, sd),
                   branch |-> "standard"]

qfoldnorm_NoSdCheck(p, mean, sd) ==
    IF validate_probability_raises(p)
    THEN ValueError("p must be strictly between 0 and 1")
    ELSE IF NumLt(sd, FOLDNORM_SD_MIN)
    THEN [status |-> "ok", value |-> NumAbs(mean), branch |-> "degenerate"]
    ELSE LET c == Shape(mean, sd)
         IN  IF ShapeExceedsCMax(c)
             THEN LET r == NumAdd(NumAbs(mean), NumScale(norm_ppf(p), sd))
                  IN  [status |-> "ok", value |-> NumMax(Zero, r),
                       branch |-> "extreme"]
             ELSE [status |-> "ok", value |-> foldnorm_ppf(p, c, sd),
                   branch |-> "standard"]

\* qfoldnorm(p, mean, sd): the returned value, or the error raised, and the
\* branch that produced the value
qfoldnorm(p, mean, sd) ==
    IF validate_probability_raises(p)
    THEN ValueError("p must be strictly between 0 and 1")
    ELSE IF validate_positive_raises(sd)
    THEN ValueError("sd must be strictly positive")
    ELSE IF NumLt(sd, FOLDNORM_SD_MIN)
    THEN [status |-> "ok", value |-> NumAbs(mean), branch |-> "degenerate"]
    ELSE LET c == Shape(mean, sd)
         IN  IF ShapeExceedsCMax(c)
             THEN LET r == NumAdd(NumAbs(mean), NumScale(norm_ppf(p), sd))
                  IN  [status |-> "ok", value |-> NumMax(Zero, r),
                       branch |-> "extreme"]
             ELSE [status |-> "ok", value |-> foldnorm_ppf(p, c, sd),
                   branch |-> "standard"]

\* np.clip(v, 0.0, 1.0)
Clip01(v) == IF v < 0 THEN 0 ELSE IF v > POne THEN POne ELSE v

pfoldnorm_Unfolded(x, mean, sd) ==
    IF validate_non_negative_raises(x)
    THEN ValueError("x must be non-negative")
    ELSE IF validate_positive_raises(sd)
    THEN ValueError("sd must be strictly positive")
    ELSE IF NumLt(sd, FOLDNORM_SD_MIN)
    THEN [status |-> "ok", value |-> IF NumLe(NumAbs(mean), x) THEN POne ELSE 0,
          branch |-> "degenerate"]
    ELSE [status |-> "ok",
          value |-> Clip01(norm_cdf(NumSub(x, NumAbs(mean)), sd)),
          branch |-> "standard"]

\* pfoldnorm(x, mean, sd)
pfoldnorm(x, mean, sd) ==
    IF validate_non_negative_raises(x)
    THEN ValueError("x must be non-negative")
    ELSE IF validate_positive_raises(sd)
    THEN ValueError("sd must be strictly positive")
    ELSE IF NumLt(sd, FOLDNORM_SD_MIN)
    THEN [status |-> "ok", value |-> IF NumLe(NumAbs(mean), x) THEN POne ELSE 0,
          branch |-> "degenerate"]
    ELSE LET mu_abs == NumAbs(mean)
             z1 == norm_cdf(NumSub(x, mu_abs), sd)
             z2 == norm_cdf(NumAdd(x, mu_abs), sd)
         IN  [status |-> "ok", value |-> Clip01(z1 + z2 - POne),
              branch |-> "standard"]

PVals == {-1, 0, 3, 5000, 15866, 50000, 68268, 95000, POne, POne + 1}

MeanVals ==
    {Zero, Num(0, 20), Num(0, -20), Num(2, 0), Num(-2, 0),
     Num(10, 0), Num(-10, 0), Num(20, 0), Num(-20, 0)}

SdVals == {Num(-1, 0), Zero, Num(0, 5), Num(0, 10), Num(1, 0)}

XVals ==
    {Num(-1, 0), Num(0, -1), Zero, Num(0, 20), Num(1, 0), Num(2, 0),
     Num(3, 0), Num(10, 0), Num(20, -10), Num(20, 0), Num(20, 10)}

QfoldnormCalls == [p : PVals, mean : MeanVals, sd : SdVals]

PfoldnormCalls == [x : XVals, mean : MeanVals, sd : SdVals]

call_qfoldnorm ==
    /\ pc = "call" /\ op = "qfoldnorm"
    /\ pc' = "done"
    /\ ret' = qfoldnorm(args.p, args.mean, args.sd)
    /\ UNCHANGED <<op, args, runs, result, warned, search, evals>>

call_pfoldnorm ==
    /\ pc = "call" /\ op = "pfoldnorm"
    /\ pc' = "done"
    /\ ret' = pfoldnorm(args.x, args.mean, args.sd)
    /\ UNCHANGED <<op, args, runs, result, warned, search, evals>>

\* qfoldnorm_vec(p, mean, sd)
MaxVec == 2

VecPVals == {0, 15866, 50000}

VecMeanVals == {Num(-2, 0), Num(10, 0)}

VecSdVals == {Zero, Num(0, 5), Num(1, 0)}

VecsOf(S) == UNION {[1..n -> S] : n \in 0..MaxVec}

QfoldnormVecCalls ==
    [p : VecsOf(VecPVals), mean : VecsOf(VecMeanVals), sd : VecsOf(VecSdVals)]

VecElement_FirstMean(p, mean, sd, i) == qfoldnorm(p[i], mean[1], sd[i])

\* line 246: qfoldnorm(p[i], mean[i], sd[i])
VecElement(p, mean, sd, i) == qfoldnorm(p[i], mean[i], sd[i])

\* evals lists the indices whose element was evaluated, in order: the loop of
\* lines 245-246 stops at the first element that raises.
qfoldnorm_vec ==
    /\ pc = "call" /\ op = "qfoldnorm_vec"
    /\ pc' = "done"
    /\ UNCHANGED <<op, args, runs, result, warned, search>>
    /\ IF ~(Len(args.p) = Len(args.mean) /\ Len(args.mean) = Len(args.sd))
       THEN /\ ret' = ValueError("Arrays must have equal length")
            /\ evals' = <<>>
       ELSE LET n == Len(args.p)
                elem == [i \in 1..n |->
                            VecElement(args.p, args.mean, args.sd, i)]
                bad == {i \in 1..n : elem[i].status # "ok"}
            IN  IF bad = {}
                THEN /\ ret' = Ok([i \in 1..n |-> elem[i].value])
                     /\ evals' = [i \in 1..n |-> i]
                ELSE LET first == CHOOSE i \in bad : \A j \in bad : i <= j
                     IN  /\ ret' = elem[first]
                         /\ evals' = [i \in 1..first |-> i]

\* The round trip of the self-test (Test 5): q = qfoldnorm(p_orig, mean, sd),
\* then p_back = pfoldnorm(q, mean, sd).  Where the distribution is continuous
\* every p of (0,1) is a value of the cdf; on the grid, p_orig is then drawn
\* from the values the cdf takes GridSpan steps of sd around |mean|.
GridSpan == 2

CdfValues(mean, sd) ==
    {foldnorm_cdf(x, Shape(mean, sd), sd) :
        x \in {y \in {NumAdd(NumAbs(mean), NumScale(k, sd)) :
                        k \in -GridSpan..GridSpan} : NumLe(Zero, y)}}

RoundTripProbs(mean, sd) ==
    IF NumLe(FOLDNORM_SD_MIN, sd) THEN CdfValues(mean, sd) ELSE PVals

RoundTripCalls ==
    UNION {[p : RoundTripProbs(m, s), mean : {m}, sd : {s}] :
              <<m, s>> \in MeanVals \X SdVals}

round_trip ==
    /\ pc = "call" /\ op = "round_trip"
    /\ pc' = "done"
    /\ LET q == qfoldnorm(args.p, args.mean, args.sd)
       IN  IF q.status # "ok"
           THEN ret' = q
           ELSE LET p_back == pfoldnorm(q.value, args.mean, args.sd)
                IN  ret' = [status |-> p_back.status, q |-> q.value,
                            p_back |-> p_back.value, branch |-> q.branch]
    /\ UNCHANGED <<op, args, runs, result, warned, search, evals>>

(***************************************************************************)
(* constrained_ols                                                         *)
(***************************************************************************)
\* the 1e-8 of "if violation > 1e-8"
WarnTol == Num(0, 100000000)

ExceedsWarnTol_Inclusive(violation) == NumLe(WarnTol, violation)

\* line 363: the violation that makes the call warn
ExceedsWarnTol(violation) == NumLt(WarnTol, violation)

\* options of the first and of the second minimize(..., method='COBYLA') call
FirstProfile ==
    [maxiter |-> 2000000, rhobeg |-> Num(500000, 0),
     tol |-> Num(0, 100000000), catol |-> Num(0, 1000000)]

RetryProfile_SameAsFirst == FirstProfile

RetryProfile ==
    [maxiter |-> 5000000, rhobeg |-> Num(100000, 0),
     tol |-> Num(0, 1000000), catol |-> Num(0, 10000)]

\* np.max(np.abs(v)) of a non-empty sequence
RECURSIVE MaxAbs(_)
MaxAbs(v) ==
    IF Len(v) = 1 THEN NumAbs(v[1])
    ELSE NumMax(NumAbs(v[1]), MaxAbs(Tail(v)))

\* v[:k] (a Python slice stops at the end of the sequence)
Take(v, k) == SubSeq(v, 1, Min(k, Len(v)))

constraint_AllCoefs(beta, no_placebos, delta) == NumSub(MaxAbs(beta), delta)

\* constraint(beta) = np.max(np.abs(beta[:no_placebos])) - delta
constraint(beta, no_placebos, delta) ==
    NumSub(MaxAbs(Take(beta, no_placebos)), delta)

\* the values a coefficient takes in the model
CoefVals == {Num(-2, 0), Num(1, -100000000), Num(1, -100000001)}

MaxCoefs == 2

CoefVectors == UNION {[1..n -> CoefVals] : n \in 1..MaxCoefs}

\* scipy.optimize.minimize(method='COBYLA'): the end point is any point of the
\* coefficient space; success is reported only for a point whose constraint
\* violation is within catol.
Cobyla(x0, no_placebos, delta, profile) ==
    {[x |-> x, success |-> s] :
        <<x, s>> \in {xs \in [1..Len(x0) -> CoefVals] \X BOOLEAN :
            xs[2] => NumLe(NumNeg(constraint(xs[1], no_placebos, delta)),
                           profile.catol)}}

DeltaVals == {Num(-1, 0), Zero, Num(1, 0), Num(2, 0)}

PlaceboVals == 0..MaxCoefs

MaxUnconstrVals == {None, <<Zero>>, <<Num(2, 0)>>}

ConstrainedOlsCalls ==
    [delta : DeltaVals, no_placebos : PlaceboVals,
     start_val : CoefVectors, max_unconstr_coef : MaxUnconstrVals]

EffectiveMaxUnconstr_IgnoresSupplied(a) ==
    MaxAbs(Take(a.start_val, a.no_placebos))

\* lines 314-316: the supplied value, or the one computed from start_val
EffectiveMaxUnconstr(a) ==
    IF a.max_unconstr_coef = None
    THEN MaxAbs(Take(a.start_val, a.no_placebos))
    ELSE a.max_unconstr_coef[1]

constrained_ols ==
    /\ pc = "call" /\ op = "constrained_ols"
    /\ pc' = "done"
    /\ UNCHANGED <<op, args, search, evals>>
    /\ IF validate_positive_raises(args.delta)
       THEN /\ ret' = ValueError("delta must be strictly positive")
            /\ UNCHANGED <<runs, result, warned>>
       ELSE IF args.no_placebos < 1
       THEN /\ ret' = ValueError("no_placebos must be at least 1")
            /\ UNCHANGED <<runs, result, warned>>
       ELSE IF NumLe(args.delta, EffectiveMaxUnconstr(args))
       THEN /\ ret' = Ok([beta |-> args.start_val, converged |-> TRUE])
            /\ UNCHANGED <<runs, result, warned>>
       ELSE \E r1 \in Cobyla(args.start_val, args.no_placebos, args.delta,
                             FirstProfile) :
            LET first == [x0 |-> args.start_val, options |-> FirstProfile,
                          success |-> r1.success]
                retry(r) == [x0 |-> args.start_val, options |-> RetryProfile,
                             success |-> r.success]
                Finish(rs, r) ==
                    LET violation ==
                            NumNeg(constraint(r.x, args.no_placebos, args.delta))
                    IN  /\ runs' = rs
                        /\ result' = <<r>>
                        /\ warned' = ExceedsWarnTol(violation)
                        /\ ret' = Ok([beta |-> r.x, converged |-> r.success])
            IN  IF r1.success
                THEN Finish(<<first>>, r1)
                ELSE \E r2 \in Cobyla(args.start_val, args.no_placebos,
                                      args.delta, RetryProfile) :
                        Finish(<<first, retry(r2)>>, r2)

(***************************************************************************)
(* sigma_hathat_c (integer-valued data; the result is the exact quotient   *)
(* num / den)                                                              *)
(***************************************************************************)
RECURSIVE Dot(_, _)
Dot(row, parameter) ==
    IF Len(row) = 0 THEN 0
    ELSE row[1] * parameter[1] + Dot(Tail(row), Tail(parameter))

\* residuals = Y - X @ parameter
Residuals(X, Y, parameter) ==
    [i \in 1..Len(Y) |-> Y[i] - Dot(X.rows[i], parameter)]

RECURSIVE SumSq_Unsquared(_)
SumSq_Unsquared(r) ==
    IF Len(r) = 0 THEN 0 ELSE r[1] + SumSq_Unsquared(Tail(r))

\* np.sum(residuals**2)
RECURSIVE SumSq(_)
SumSq(r) == IF Len(r) = 0 THEN 0 ELSE r[1] * r[1] + SumSq(Tail(r))

\* len(np.unique(v))
NUnique(v) == Cardinality({v[i] : i \in 1..Len(v)})

DegreesOfFreedom_NoPlusOne(N, p, n, T) == N - p - n - T

\* df = N - p - n - T + 1
DegreesOfFreedom(N, p, n, T) == N - p - n - T + 1

MaxObs == 3

IdVals == {1, 2}

DataVals == {0, 1}

ColVals == {0, 1}

SeqsOf(S, n) == [1..n -> S]

SigmaCalls ==
    UNION {
      [parameter : SeqsOf(DataVals, p),
       X : [ncol : {p}, rows : SeqsOf(SeqsOf(DataVals, p), N)],
       Y : SeqsOf(DataVals, N),
       ID : SeqsOf(IdVals, N),
       time : UNION {SeqsOf(IdVals, t) : t \in 0..MaxObs}]
      : <<N, p>> \in (0..MaxObs) \X ColVals}

sigma_hathat_c ==
    /\ pc = "call" /\ op = "sigma_hathat_c"
    /\ pc' = "done"
    /\ UNCHANGED <<op, args, runs, result, warned, search, evals>>
    /\ IF Len(args.ID) = 0
       THEN ret' = ValueError("ID array cannot be empty")
       ELSE IF Len(args.time) = 0
       THEN ret' = ValueError("time array cannot be empty")
       ELSE LET residuals == Residuals(args.X, args.Y, args.parameter)
                N == Len(args.ID)
                n == NUnique(args.ID)
                T == NUnique(args.time)
                p == args.X.ncol
                df == DegreesOfFreedom(N, p, n, T)
            IN  IF df <= 0
                THEN ret' = [status |-> "ValueError",
                             msg |-> "Degrees of freedom must be positive",
                             df |-> df, N |-> N, p |-> p, n |-> n, T |-> T]
                ELSE ret' = Ok([num |-> SumSq(residuals), den |-> df])

(***************************************************************************)
(* Minimum threshold search, IU method                                     *)
(***************************************************************************)
ProbeMax == 12

\* The points at which a bounded search over [lower, upper] evaluates its
\* objective are modelled by the mesh lower + k*h inside the interval.
SearchMesh(lower, upper, h) ==
    {x \in {NumAdd(lower, NumScale(k, h)) : k \in 0..ProbeMax} :
        NumLe(x, upper)}

\* scipy.optimize.minimize_scalar(f, bounds=(lower, upper), method='bounded'):
\* raises ValueError when the lower bound exceeds the upper bound; otherwise
\* it ends at a point where f, given by its values on the mesh, is least.
MinimizeScalarBounded(f, lower, upper) ==
    IF NumLt(upper, lower)
    THEN {ValueError("The lower bound exceeds the upper bound.")}
    ELSE {[status |-> "ok", x |-> x] :
             x \in {y \in DOMAIN f : \A w \in DOMAIN f : f[y] <= f[w]}}

IuBounds_SwapAbove10(coef, sd) ==
    LET lower_r == NumMax(Zero, NumSub(coef, NumScale(10, sd)))
        upper_r == NumScale(10, sd)
    IN  IF NumLt(NumScale(10, sd), coef)
        THEN [lower |-> upper_r, upper |-> lower_r]
        ELSE [lower |-> lower_r, upper |-> upper_r]

IuBounds_NoSwap(coef, sd) ==
    [lower |-> NumMax(Zero, NumSub(coef, NumScale(10, sd))),
     upper |-> NumScale(10, sd)]

\* lines 505-510: the R interval c(max(0, coef - 10*sd), 10*sd), swapped when
\* its first end exceeds the second
IuBounds(coef, sd) ==
    LET lower_r == NumMax(Zero, NumSub(coef, NumScale(10, sd)))
        upper_r == NumScale(10, sd)
    IN  [lower |-> NumMin(lower_r, upper_r), upper |-> NumMax(lower_r, upper_r)]

AbsDev_Signed(p, alpha) == p - alpha

\* objective(delta) = 1e20 * (pfoldnorm(coef, delta, sd) - alpha)**2 orders the
\* margins as |pfoldnorm(coef, delta, sd) - alpha| does; the model keeps the
\* latter, in units of 1e-5.
AbsDev(p, alpha) == IF p < alpha THEN alpha - p ELSE p - alpha

CoefMultiples == {0, 1, 2, 10, 15, 20, 21, 30}

ThresholdSdVals == {Zero, Num(0, 5), Num(0, 10), Num(1, 0)}

AlphaVals == {0, 5000, 50000, POne}

\* The significance levels of a call.  pfoldnorm(coef, delta, sd) is continuous
\* in delta when sd is not degenerate, so a level below its value at delta = 0
\* is attained at some margin; on the grid the levels are therefore drawn from
\* the values attained GridSpan steps of sd around coef, and from the levels
\* above the value at delta = 0, which no margin attains.
ThresholdAlphas(coef, sd) ==
    IF \/ validate_non_negative_raises(coef)
       \/ validate_positive_raises(sd)
       \/ NumLt(sd, FOLDNORM_SD_MIN)
    THEN AlphaVals
    ELSE {0, POne}
         \cup {pfoldnorm(coef, d, sd).value :
                  d \in {y \in {NumAdd(coef, NumScale(j, sd)) :
                                   j \in -GridSpan..GridSpan} : NumLe(Zero, y)}}
         \cup {a \in AlphaVals : a > pfoldnorm(coef, Zero, sd).value}

ThresholdCalls ==
    UNION {[coef : {c}, sd : {s}, alpha : ThresholdAlphas(c, s)] :
              <<c, s>> \in
                  UNION {({Num(-1, 0)}
                          \cup {NumScale(k, t) : k \in CoefMultiples}) \X {t} :
                            t \in ThresholdSdVals}}

IuCalls == ThresholdCalls

ThresholdArgsError_NoAlphaCheck(coef, sd, alpha) ==
    IF validate_non_negative_raises(coef)
    THEN <<ValueError("coef must be non-negative")>>
    ELSE IF validate_positive_raises(sd)
    THEN <<ValueError("sd must be strictly positive")>>
    ELSE None

\* lines 495-497 and 562-564: the three checks that open both searches; the
\* error the first failing one raises, or None
ThresholdArgsError(coef, sd, alpha) ==
    IF validate_non_negative_raises(coef)
    THEN <<ValueError("coef must be non-negative")>>
    ELSE IF validate_positive_raises(sd)
    THEN <<ValueError("sd must be strictly positive")>>
    ELSE IF validate_probability_raises(alpha)
    THEN <<ValueError("alpha must be strictly between 0 and 1")>>
    ELSE None

\* One bounded line search of objective over [b.lower, b.upper]: search records
\* the bounds and the objective at every margin it was evaluated at.
LineSearch(f, b) ==
    /\ search' = <<[lower |-> b.lower, upper |-> b.upper, f |-> f]>>
    /\ \E r \in MinimizeScalarBounded(f, b.lower, b.upper) :
          ret' = IF r.status = "ok" THEN Ok(r.x) ELSE r

find_min_threshold_iu ==
    /\ pc = "call" /\ op = "find_min_threshold_iu"
    /\ pc' = "done"
    /\ UNCHANGED <<op, args, runs, result, warned, evals>>
    /\ LET err == ThresholdArgsError(args.coef, args.sd, args.alpha)
       IN  IF err # None
           THEN ret' = err[1] /\ UNCHANGED search
           ELSE LET objective(delta) ==
                        AbsDev(pfoldnorm(args.coef, delta, args.sd).value,
                               args.alpha)
                    b == IuBounds(args.coef, args.sd)
                    f == [delta \in SearchMesh(b.lower, b.upper, args.sd) |->
                             objective(delta)]
                IN  LineSearch(f, b)

(***************************************************************************)
(* Minimum threshold search, Mean method                                   *)
(***************************************************************************)
MeanBounds_NoFloor(coef, sd) ==
    [lower |-> NumSub(coef, NumScale(4, sd)),
     upper |-> NumAdd(coef, NumScale(4, sd))]

\* lines 572-573: lower = max(0.0, coef - 4*sd), upper = coef + 4*sd
MeanBounds(coef, sd) ==
    [lower |-> NumMax(Zero, NumSub(coef, NumScale(4, sd))),
     upper |-> NumAdd(coef, NumScale(4, sd))]

MeanCalls == ThresholdCalls

find_min_threshold_mean ==
    /\ pc = "call" /\ op = "find_min_threshold_mean"
    /\ pc' = "done"
    /\ UNCHANGED <<op, args, runs, result, warned, evals>>
    /\ LET err == ThresholdArgsError(args.coef, args.sd, args.alpha)
       IN  IF err # None
           THEN ret' = err[1] /\ UNCHANGED search
           ELSE LET objective(delta) ==
                        AbsDev(pfoldnorm(args.coef, delta, args.sd).value,
                               args.alpha)
                    b == MeanBounds(args.coef, args.sd)
                    f == [delta \in SearchMesh(b.lower, b.upper, args.sd) |->
                             objective(delta)]
                IN  LineSearch(f, b)

(***************************************************************************)
(* Minimum threshold search, Bootstrap method                              *)
(***************************************************************************)
\* lines 638-639: lower = max_abs_coef, upper = max_abs_coef + 15 * max_sd
BootstrapBounds(max_abs_coef, max_sd) ==
    [lower |-> max_abs_coef,
     upper |-> NumAdd(max_abs_coef, NumScale(15, max_sd))]

\* the margins of [lower, upper] the model searches: steps of
\* BootstrapStep * max_sd from the lower end, and the upper end
BootstrapStep == 3

BootstrapMesh(b, max_sd) ==
    SearchMesh(b.lower, b.upper, NumScale(BootstrapStep, max_sd))
    \cup {b.upper}

\* np.exp(-delta) in double precision is 0.0 for delta above 745.133219...
EXP_UNDERFLOW == Num(745133219, 0)

\* np.exp(-delta): 0 where it underflows; elsewhere positive and strictly
\* decreasing in delta, kept up to order as the number of mesh margins not
\* below delta.
ExpNeg(delta, mesh) ==
    IF NumLt(EXP_UNDERFLOW, delta)
    THEN 0
    ELSE Cardinality({x \in mesh : NumLe(delta, x)})

\* lines 633-635: reject = bootstrap_test_func(delta);
\* -np.exp(-delta) if reject else np.exp(-delta).  The rejection predicate is
\* given by the set of margins at which it is true.
wrapper(reject, delta, mesh) ==
    IF delta \in reject THEN -ExpNeg(delta, mesh) ELSE ExpNeg(delta, mesh)

BootstrapCoefVals ==
    {Num(-1, 0), Zero, Num(0, 10), Num(1, 0), Num(20, 0), Num(800000000, 0)}

BootstrapSdVals == {Num(-1, 0), Zero, Num(0, 10), Num(1, 0)}

\* every rejection predicate on the margins the search can reach
BootstrapPredicates(max_abs_coef, max_sd) ==
    IF validate_non_negative_raises(max_abs_coef)
       \/ validate_positive_raises(max_sd)
    THEN SUBSET {max_abs_coef}
    ELSE SUBSET BootstrapMesh(BootstrapBounds(max_abs_coef, max_sd), max_sd)

BootstrapCalls ==
    UNION {[bootstrap_test_func : BootstrapPredicates(c, s),
            max_abs_coef : {c}, max_sd : {s}] :
              <<c, s>> \in BootstrapCoefVals \X BootstrapSdVals}

find_min_threshold_bootstrap ==
    /\ pc = "call" /\ op = "find_min_threshold_bootstrap"
    /\ pc' = "done"
    /\ UNCHANGED <<op, args, runs, result, warned, evals>>
    /\ IF validate_non_negative_raises(args.max_abs_coef)
       THEN ret' = ValueError("max_abs_coef must be non-negative")
            /\ UNCHANGED search
       ELSE IF validate_positive_raises(args.max_sd)
       THEN ret' = ValueError("max_sd must be strictly positive")
            /\ UNCHANGED search
       ELSE LET b == BootstrapBounds(args.max_abs_coef, args.max_sd)
                mesh == BootstrapMesh(b, args.max_sd)
                f == [delta \in mesh |->
                         wrapper(args.bootstrap_test_func, delta, mesh)]
            IN  LineSearch(f, b)

(***************************************************************************)
(* Specification                                                           *)
(***************************************************************************)
\* the calls of each public function
Calls ==
    [constrained_ols |-> ConstrainedOlsCalls,
     sigma_hathat_c |-> SigmaCalls,
     qfoldnorm |-> QfoldnormCalls,
     pfoldnorm |-> PfoldnormCalls,
     qfoldnorm_vec |-> QfoldnormVecCalls,
     round_trip |-> RoundTripCalls,
     find_min_threshold_iu |-> IuCalls,
     find_min_threshold_mean |-> MeanCalls,
     find_min_threshold_bootstrap |-> BootstrapCalls]

Init ==
    /\ pc = "call"
    /\ \E o \in DOMAIN Calls : op = o /\ args \in Calls[o]
    /\ ret = NoReturn
    /\ runs = <<>>
    /\ result = None
    /\ warned = FALSE
    /\ search = None
    /\ evals = <<>>

Next ==
    \/ constrained_ols
    \/ sigma_hathat_c
    \/ call_qfoldnorm
    \/ call_pfoldnorm
    \/ qfoldnorm_vec
    \/ round_trip
    \/ find_min_threshold_iu
    \/ find_min_threshold_mean
    \/ find_min_threshold_bootstrap

Spec == Init /\ [][Next]_vars

(***************************************************************************)
(* Properties of constrained_ols                                           *)
(***************************************************************************)
ColsDone == pc = "done" /\ op = "constrained_ols"

ColsValid ==
    ColsDone /\ NumLt(Zero, args.delta) /\ args.no_placebos >= 1

StartMax == MaxAbs(Take(args.start_val, args.no_placebos))

FastPathOutcome ==
    /\ ret.status = "ok"
    /\ ret.value.beta = args.start_val
    /\ ret.value.converged = TRUE
    /\ runs = <<>>
    /\ result = None

\* C1 as claimed: whenever max(|start_val[0:no_placebos]|) >= delta, supplied
\* max_unconstr_coef or not, start_val is returned, the flag is true and the
\* optimizer is never invoked.
C1_AsClaimed ==
    (ColsValid /\ NumLe(args.delta, StartMax)) => FastPathOutcome

\* C1 (amended): the fast path is decided by the effective max_unconstr_coef,
\* the supplied value when there is one and max(|start_val[0:no_placebos]|)
\* only when there is none: when that value is >= delta, start_val is returned
\* exactly, the flag is true and the optimizer is invoked zero times.
C1_FastPath ==
    ColsValid =>
        /\ (args.max_unconstr_coef = None /\ NumLe(args.delta, StartMax))
              => FastPathOutcome
        /\ (args.max_unconstr_coef # None
              /\ NumLe(args.delta, args.max_unconstr_coef[1]))
              => FastPathOutcome
        /\ (args.max_unconstr_coef # None
              /\ NumLt(args.max_unconstr_coef[1], args.delta))
              => (ret.status = "ok" /\ Len(runs) >= 1)

C1_Witness ==
    /\ ColsValid
    /\ args.max_unconstr_coef # None
    /\ NumLe(args.delta, args.max_unconstr_coef[1])
    /\ NumLt(StartMax, args.delta)
    /\ ret.status = "ok" /\ ret.value.beta = args.start_val /\ runs = <<>>

ReturnedMax == MaxAbs(Take(ret.value.beta, args.no_placebos))

ConstraintHeld == NumLe(NumSub(args.delta, WarnTol), ReturnedMax)

\* C2 as claimed: whenever max(|start_val[0:no_placebos]|) < delta the
\* returned beta has max(|beta[0:no_placebos]|) >= delta - 1e-8, whatever the
\* search reports.
C2_AsClaimed ==
    (ColsValid /\ NumLt(StartMax, args.delta)) =>
        (ret.status = "ok" /\ ConstraintHeld)

\* C2 (amended): when the optimizer has run, the returned beta has
\* max(|beta[0:no_placebos]|) >= delta - 1e-8 whenever the last search run
\* reports success or, more generally, whenever the call emits no warning; a
\* point that violates the constraint by more is returned as it is.
C2_ConstraintUnlessWarned ==
    (ColsValid /\ runs # <<>>) =>
        /\ ret.status = "ok"
        /\ (ret.value.converged \/ ~warned) => ConstraintHeld

C2_Witness ==
    /\ ColsValid /\ Len(runs) = 2
    /\ ret.value.converged /\ ~warned /\ ConstraintHeld
    /\ ret.value.beta # args.start_val

\* C3: on the optimization path a warning is emitted exactly when
\* delta - max(|beta[0:no_placebos]|) at the returned point exceeds 1e-8, and
\* the returned pair is the end point and the success flag of the last search
\* run, whether or not the constraint holds there.
C3_WarningOnly ==
    (ColsDone /\ runs # <<>>) =>
        /\ warned <=> NumLt(WarnTol, NumSub(args.delta, ReturnedMax))
        /\ Len(result) = 1
        /\ ret = Ok([beta |-> result[1].x, converged |-> result[1].success])

C3_Witness ==
    /\ ColsDone /\ Len(runs) = 2 /\ warned
    /\ ret.value.converged = FALSE
    /\ NumLt(WarnTol, NumSub(args.delta, ReturnedMax))

(***************************************************************************)
(* Properties of sigma_hathat_c                                            *)
(***************************************************************************)
SigmaDone == pc = "done" /\ op = "sigma_hathat_c"

ClaimedDf ==
    Len(args.ID) - args.X.ncol
        - Cardinality({args.ID[i] : i \in 1..Len(args.ID)})
        - Cardinality({args.time[i] : i \in 1..Len(args.time)}) + 1

RECURSIVE SumOver(_, _)
SumOver(f, n) == IF n = 0 THEN 0 ELSE f[n] + SumOver(f, n - 1)

ClaimedResidual(i) ==
    args.Y[i] - SumOver([j \in 1..args.X.ncol |->
                            args.X.rows[i][j] * args.parameter[j]],
                        args.X.ncol)

ClaimedSsr ==
    SumOver([i \in 1..Len(args.Y) |-> ClaimedResidual(i) * ClaimedResidual(i)],
            Len(args.Y))

IsDfError ==
    ret.status = "ValueError" /\ ret.msg = "Degrees of freedom must be positive"

\* C8: df = N - p - n - T + 1 with N = len(ID), p = columns of X, n and T the
\* numbers of distinct IDs and times; an empty ID or time gives the
\* invalid-argument error; otherwise the degrees-of-freedom error is raised
\* exactly when df <= 0 and else sum((Y - X*parameter)^2) / df is returned.
C8_VarianceFormula ==
    SigmaDone =>
        IF Len(args.ID) = 0 \/ Len(args.time) = 0
        THEN ret.status = "ValueError" /\ ~IsDfError
        ELSE IF ClaimedDf <= 0
        THEN IsDfError /\ ret.df = ClaimedDf
        ELSE ret = Ok([num |-> ClaimedSsr, den |-> ClaimedDf])

C8_Witness ==
    /\ SigmaDone /\ ret.status = "ok"
    /\ ret.value.den = 1 /\ ret.value.num = 2
    /\ args.X.ncol = 1 /\ Len(args.ID) # Len(args.time)

WellPosed == Len(args.ID) > 0 /\ Len(args.time) > 0 /\ ClaimedDf > 0

\* C9 as claimed: for every well-posed input the returned variance is
\* strictly positive, and df <= 0 raises the degrees-of-freedom error.
C9_AsClaimed ==
    SigmaDone =>
        /\ WellPosed => (ret.status = "ok" /\ ret.value.num > 0)
        /\ (Len(args.ID) > 0 /\ Len(args.time) > 0 /\ ClaimedDf <= 0)
              => IsDfError

\* C9 (amended): for every well-posed input the returned variance is
\* non-negative, and it is zero exactly when every residual is zero (a perfect
\* fit); df <= 0 raises the degrees-of-freedom error.
C9_NonNegative ==
    SigmaDone =>
        /\ WellPosed =>
              /\ ret.status = "ok"
              /\ ret.value.den > 0
              /\ ret.value.num >= 0
              /\ ret.value.num = 0
                    <=> \A i \in 1..Len(args.Y) : ClaimedResidual(i) = 0
        /\ (Len(args.ID) > 0 /\ Len(args.time) > 0 /\ ClaimedDf <= 0)
              => IsDfError

C9_Witness ==
    /\ SigmaDone /\ WellPosed /\ ret.status = "ok"
    /\ ret.value.num = 0 /\ args.X.ncol = 1
    /\ \E i \in 1..Len(args.Y) : args.Y[i] # 0

(***************************************************************************)
(* Properties of the folded normal functions                               *)
(***************************************************************************)
RoundTripDone == pc = "done" /\ op = "round_trip"

ValidQuantileArgs ==
    0 < args.p /\ args.p < POne /\ NumLt(Zero, args.sd)

QfoldnormDone == pc = "done" /\ op = "qfoldnorm"

PfoldnormDone == pc = "done" /\ op = "pfoldnorm"

\* C5: qfoldnorm(p, m, s) and qfoldnorm(p, -m, s) take the same branch and
\* return exactly the same value for every m, s > 0 and p in (0,1).
C5_SignSymmetry ==
    (QfoldnormDone /\ ValidQuantileArgs) =>
        LET mirrored == qfoldnorm(args.p, NumNeg(args.mean), args.sd)
        IN  /\ ret.status = "ok" /\ mirrored.status = "ok"
            /\ ret.branch = mirrored.branch
            /\ ret.value = mirrored.value

C5_Witness ==
    /\ QfoldnormDone /\ ValidQuantileArgs
    /\ NumLt(args.mean, Zero)
    /\ ret.branch = "extreme" /\ NumLt(Zero, ret.value)

\* C6: qfoldnorm raises ValueError exactly when p is not strictly between 0
\* and 1 or sd <= 0, pfoldnorm exactly when x < 0 or sd <= 0; a failing call
\* returns no value and every other call returns one.
C6_ValidationExact ==
    /\ QfoldnormDone =>
          /\ ret.status = "ValueError"
                <=> (~(0 < args.p /\ args.p < POne) \/ NumLe(args.sd, Zero))
          /\ ret.status \in {"ValueError", "ok"}
          /\ ret.status = "ok" <=> "value" \in DOMAIN ret
    /\ PfoldnormDone =>
          /\ ret.status = "ValueError"
                <=> (NumLt(args.x, Zero) \/ NumLe(args.sd, Zero))
          /\ ret.status \in {"ValueError", "ok"}
          /\ ret.status = "ok" <=> "value" \in DOMAIN ret

C6_Witness ==
    /\ QfoldnormDone /\ 0 < args.p /\ args.p < POne
    /\ args.sd = Zero /\ ret.status = "ValueError"

Degenerate == NumLt(Zero, args.sd) /\ NumLt(args.sd, FOLDNORM_SD_MIN)

\* C7: for 0 < sd < 1e-15 qfoldnorm returns |mean| exactly for every p in
\* (0,1) and pfoldnorm is the step function, 1 when x >= |mean| and 0
\* otherwise; the degenerate branch is taken even when |mean| / sd > 1e10.
C7_Degenerate ==
    /\ (QfoldnormDone /\ ValidQuantileArgs /\ Degenerate) =>
          /\ ret.status = "ok"
          /\ ret.value = NumAbs(args.mean)
          /\ ret.branch = "degenerate"
    /\ (PfoldnormDone /\ NumLe(Zero, args.x) /\ Degenerate) =>
          /\ ret.status = "ok"
          /\ ret.value = IF NumLe(NumAbs(args.mean), args.x) THEN POne ELSE 0

C7_Witness ==
    /\ QfoldnormDone /\ ValidQuantileArgs /\ Degenerate
    /\ ShapeExceedsCMax(Shape(args.mean, args.sd))
    /\ args.p < 50000
    /\ ret.value = NumAbs(args.mean)

(***************************************************************************)
(* Properties of find_min_threshold_iu                                     *)
(***************************************************************************)
IuDone == pc = "done" /\ op = "find_min_threshold_iu"

IuValid ==
    /\ NumLe(Zero, args.coef) /\ NumLt(Zero, args.sd)
    /\ 0 < args.alpha /\ args.alpha < POne

ClaimedA == NumMax(Zero, NumSub(args.coef, NumScale(10, args.sd)))

ClaimedB == NumScale(10, args.sd)

\* C10: for every valid input the bounds handed to the line search are
\* (min(a,b), max(a,b)) with a = max(0, coef - 10*sd) and b = 10*sd; the lower
\* bound never exceeds the upper bound and the call does not fail.
C10_BoundsOrdered ==
    (IuDone /\ IuValid) =>
        /\ Len(search) = 1
        /\ search[1].lower = NumMin(ClaimedA, ClaimedB)
        /\ search[1].upper = NumMax(ClaimedA, ClaimedB)
        /\ NumLe(search[1].lower, search[1].upper)
        /\ ret.status = "ok"

C10_Witness ==
    /\ IuDone /\ IuValid
    /\ NumLt(ClaimedB, ClaimedA)
    /\ search[1].lower = ClaimedB /\ search[1].upper = ClaimedA
    /\ ret.status = "ok"

(***************************************************************************)
(* Properties of the IU and Mean searches                                  *)
(***************************************************************************)
ThresholdDone ==
    pc = "done" /\ op \in {"find_min_threshold_iu", "find_min_threshold_mean"}

\* |pfoldnorm(coef, delta, sd) - alpha| in units of 1e-5: below 1e-6 exactly
\* when it is 0
ClaimedDeviation(delta) ==
    LET p == pfoldnorm(args.coef, delta, args.sd).value
    IN  IF p < args.alpha THEN args.alpha - p ELSE p - args.alpha

ClaimedInterval ==
    IF op = "find_min_threshold_iu"
    THEN [lower |-> NumMin(ClaimedA, ClaimedB),
          upper |-> NumMax(ClaimedA, ClaimedB)]
    ELSE [lower |-> NumMax(Zero, NumSub(args.coef, NumScale(4, args.sd))),
          upper |-> NumAdd(args.coef, NumScale(4, args.sd))]

\* the margins lower + k * sd of the claimed interval
ClaimedMargins ==
    {d \in {NumAdd(ClaimedInterval.lower, NumScale(k, args.sd)) :
               k \in 0..ProbeMax} : NumLe(d, ClaimedInterval.upper)}

BootstrapDone == pc = "done" /\ op = "find_min_threshold_bootstrap"

BootstrapValid ==
    NumLe(Zero, args.max_abs_coef) /\ NumLt(Zero, args.max_sd)

\* the margins at which w is least, w being the recorded wrapper values
LeastMargins(w) == {d \in DOMAIN w : \A e \in DOMAIN w : w[d] <= w[e]}

\* the rejecting margins among those w is recorded at
Rejecting(w) == DOMAIN w \cap args.bootstrap_test_func

\* C12: the wrapper value w(delta) is negative exactly when reject(delta) is
\* true; for every predicate true at some margin of the interval, monotone or
\* not, the minimum of w over the interval is attained at the smallest
\* rejecting margin and nowhere else; when the predicate is false everywhere
\* the minimum is attained at the upper endpoint.
C12_AsClaimed ==
    (BootstrapDone /\ BootstrapValid) =>
        /\ Len(search) = 1
        /\ LET w == search[1].f
           IN  /\ \A d \in DOMAIN w :
                     (w[d] < 0) <=> (d \in args.bootstrap_test_func)
               /\ Rejecting(w) # {} =>
                     \E d \in Rejecting(w) :
                         /\ \A e \in Rejecting(w) : NumLe(d, e)
                         /\ LeastMargins(w) = {d}
               /\ Rejecting(w) = {} =>
                     LeastMargins(w) =
                         {NumAdd(args.max_abs_coef, NumScale(15, args.max_sd))}

\* the same statement for the calls whose interval lies below the margin at
\* which np.exp(-delta) underflows
C12_BelowUnderflow ==
    (/\ BootstrapDone /\ BootstrapValid
     /\ NumLe(NumAdd(args.max_abs_coef, NumScale(15, args.max_sd)),
              EXP_UNDERFLOW)) => C12_AsClaimed

\* a predicate that is not monotone: it rejects at a margin, accepts at a
\* larger one and rejects again above that
C12_Witness ==
    /\ BootstrapDone /\ BootstrapValid
    /\ Len(search) = 1
    /\ \E d1, d2, d3 \in DOMAIN search[1].f :
          /\ NumLt(d1, d2) /\ NumLt(d2, d3)
          /\ d1 \in args.bootstrap_test_func
          /\ d2 \notin args.bootstrap_test_func
          /\ d3 \in args.bootstrap_test_func
          /\ NumLt(args.max_abs_coef, d1)
          /\ LeastMargins(search[1].f) = {d1}

\* a rejecting margin at which the wrapper value is not negative
C12_SignLost ==
    /\ BootstrapDone /\ BootstrapValid
    /\ Len(search) = 1
    /\ \E d \in DOMAIN search[1].f :
          d \in args.bootstrap_test_func /\ search[1].f[d] = 0

(***************************************************************************)
(* Properties shared by the three searches                                 *)
(***************************************************************************)
SearchOps ==
    {"find_min_threshold_iu", "find_min_threshold_mean",
     "find_min_threshold_bootstrap"}

SearchDone == pc = "done" /\ op \in SearchOps

SearchValid ==
    IF op = "find_min_threshold_bootstrap" THEN BootstrapValid ELSE IuValid

\* the closed search interval the claim gives each method
C13_Interval ==
    IF op = "find_min_threshold_bootstrap"
    THEN [lower |-> args.max_abs_coef,
          upper |-> NumAdd(args.max_abs_coef, NumScale(15, args.max_sd))]
    ELSE ClaimedInterval

InInterval(d, i) == NumLe(i.lower, d) /\ NumLe(d, i.upper)

\* C13: for every valid input and every rejection predicate each of the three
\* searches is one line search, never retried, that returns a margin inside
\* its closed search interval ([min(a,b), max(a,b)] for IU,
\* [max(0, coef - 4 sd), coef + 4 sd] for Mean,
\* [max_abs_coef, max_abs_coef + 15 max_sd] for Bootstrap), and the objective,
\* hence the predicate, is evaluated only at margins inside that interval.
C13_SearchContained ==
    (SearchDone /\ SearchValid) =>
        /\ Len(search) = 1
        /\ runs = <<>>
        /\ ret.status = "ok"
        /\ InInterval(ret.value, C13_Interval)
        /\ DOMAIN search[1].f # {}
        /\ \A d \in DOMAIN search[1].f : InInterval(d, C13_Interval)

\* a Mean search whose interval is cut at 0 and that evaluates there
C13_Witness ==
    /\ SearchDone /\ SearchValid
    /\ op = "find_min_threshold_mean"
    /\ NumLt(args.coef, NumScale(4, args.sd))
    /\ Len(search) = 1
    /\ Zero \in DOMAIN search[1].f
    /\ InInterval(ret.value, C13_Interval)

(***************************************************************************)
(* Validation before computation                                           *)
(***************************************************************************)
\* the arguments the claim calls invalid, per operation
ClaimedInvalid ==
    CASE op = "constrained_ols" ->
            NumLe(args.delta, Zero) \/ args.no_placebos < 1
      [] op \in {"find_min_threshold_iu", "find_min_threshold_mean"} ->
            \/ NumLt(args.coef, Zero) \/ NumLe(args.sd, Zero)
            \/ args.alpha <= 0 \/ args.alpha >= POne
      [] op = "find_min_threshold_bootstrap" ->
            NumLt(args.max_abs_coef, Zero) \/ NumLe(args.max_sd, Zero)
      [] OTHER -> FALSE

\* nothing was computed: no optimizer run, no optimizer result, no warning, no
\* line search and so no evaluation of an objective or of the predicate
NothingInvoked ==
    runs = <<>> /\ result = None /\ warned = FALSE /\ search = None

\* C14: constrained_ols with delta <= 0 or no_placebos < 1, the IU and Mean
\* searches with coef < 0, sd <= 0 or alpha outside (0,1), and the Bootstrap
\* search with max_abs_coef < 0 or max_sd <= 0 fail with an invalid-argument
\* error, return no value, and have invoked neither the optimizer nor the line
\* search nor the objective nor the rejection predicate.
C14_ValidationFirst ==
    (pc = "done" /\ ClaimedInvalid) =>
        /\ ret.status = "ValueError"
        /\ "value" \notin DOMAIN ret
        /\ NothingInvoked

\* a Bootstrap call with max_sd = 0 whose predicate rejects at max_abs_coef
C14_Witness ==
    /\ pc = "done" /\ op = "find_min_threshold_bootstrap"
    /\ args.max_sd = Zero /\ NumLe(Zero, args.max_abs_coef)
    /\ args.bootstrap_test_func # {}
    /\ ret.status = "ValueError"
    /\ NothingInvoked

(***************************************************************************)
(* Properties of qfoldnorm_vec                                             *)
(***************************************************************************)
VecDone == pc = "done" /\ op = "qfoldnorm_vec"

EqualLengths == Len(args.p) = Len(args.mean) /\ Len(args.mean) = Len(args.sd)

ValidElement(i) ==
    0 < args.p[i] /\ args.p[i] < POne /\ NumLt(Zero, args.sd[i])

\* C15: on three sequences of equal length n whose elements are all valid the
\* result is a sequence of length n whose i-th element is
\* qfoldnorm(p[i], mean[i], sd[i]); on unequal lengths the call fails with an
\* invalid-argument error before any element is evaluated; one invalid
\* element fails the whole call and no partial sequence is returned.
C15_Elementwise ==
    VecDone =>
        IF ~EqualLengths
        THEN ret.status = "ValueError" /\ evals = <<>>
        ELSE IF \A i \in 1..Len(args.p) : ValidElement(i)
        THEN /\ ret.status = "ok"
             /\ Len(ret.value) = Len(args.p)
             /\ \A i \in 1..Len(args.p) :
                   ret.value[i] =
                       qfoldnorm(args.p[i], args.mean[i], args.sd[i]).value
        ELSE ret.status = "ValueError" /\ "value" \notin DOMAIN ret

\* two elements with different means and different results
C15_Witness ==
    /\ VecDone /\ EqualLengths
    /\ Len(args.p) = 2
    /\ args.p[1] = args.p[2] /\ args.sd[1] = args.sd[2]
    /\ args.mean[1] # args.mean[2]
    /\ ret.status = "ok"
    /\ ret.value[1] # ret.value[2]
    /\ evals = <<1, 2>>

(***************************************************************************)
(* The retry protocol                                                      *)
(***************************************************************************)
\* the test of line 320 on the effective max_unconstr_coef
FastPathTaken ==
    NumLe(args.delta,
          IF args.max_unconstr_coef = None THEN StartMax
          ELSE args.max_unconstr_coef[1])

\* tol 1e-10 < 1e-8, catol 1e-12 < 1e-10, rhobeg 0.1 < 0.5,
\* maxiter 5000000 > 2000000
ClaimedFirstOptions ==
    [maxiter |-> 2000000, rhobeg |-> Num(500000, 0),
     tol |-> Num(0, 100000000), catol |-> Num(0, 1000000)]

ClaimedRetryOptions ==
    [maxiter |-> 5000000, rhobeg |-> Num(100000, 0),
     tol |-> Num(0, 1000000), catol |-> Num(0, 10000)]

Tighter(o2, o1) ==
    /\ NumLt(o2.tol, o1.tol) /\ NumLt(o2.catol, o1.catol)
    /\ NumLt(o2.rhobeg, o1.rhobeg) /\ o2.maxiter > o1.maxiter

\* C17: a valid constrained_ols call runs the optimizer 0 times on the fast
\* path and otherwise once or twice; the second run happens exactly when the
\* first does not report success, starts again from start_val and uses the
\* tighter profile (tol 1e-10, catol 1e-12, rhobeg 0.1, maxiter 5000000
\* against 1e-8, 1e-10, 0.5, 2000000); there is never a third run, and the
\* result returned is that of the last run.  The threshold searches run no
\* optimizer and at most one line search.
C17_RetryProtocol ==
    /\ ColsValid =>
          /\ (Len(runs) = 0) <=> FastPathTaken
          /\ Len(runs) \in {0, 1, 2}
          /\ (Len(runs) = 2) <=> (Len(runs) >= 1 /\ ~runs[1].success)
          /\ Len(runs) >= 1 =>
                /\ runs[1].x0 = args.start_val
                /\ runs[1].options = ClaimedFirstOptions
                /\ ret.value.converged = runs[Len(runs)].success
          /\ Len(runs) = 2 =>
                /\ runs[2].x0 = args.start_val
                /\ runs[2].options = ClaimedRetryOptions
                /\ Tighter(runs[2].options, runs[1].options)
    /\ SearchDone => (runs = <<>> /\ Len(search) <= 1)

\* a retry that itself fails: two runs, neither successful, no third
C17_Witness ==
    /\ ColsValid /\ ~FastPathTaken
    /\ Len(runs) = 2
    /\ ~runs[1].success /\ ~runs[2].success
    /\ runs[2].x0 = args.start_val
    /\ ret.value.converged = FALSE

(***************************************************************************)
(* The swap of the IU bounds                                               *)
(***************************************************************************)
Searched(lo, hi) ==
    /\ Len(search) = 1
    /\ search[1].lower = lo /\ search[1].upper = hi

TenSd == NumScale(10, args.sd)

====
